---- MODULE Spec2Model ----
(***************************************************************************)
(* Model of part-4/app.py: the Book/Author REST API over the SQLite store. *)
(*                                                                         *)
(* Encoding of values.  A JSON value (and a nullable column) is None or    *)
(* Some(v).  A string is a sequence of one-character strings.  A request   *)
(* payload is a function from the keys that are present to JSON values;    *)
(* the empty payload {} is the empty function.  A query-string argument is *)
(* None (not supplied) or Some(string).                                    *)
(***************************************************************************)
EXTENDS Integers, Sequences, FiniteSets, TLC

VARIABLES authors, books, req, resp, pc

vars == <<authors, books, req, resp, pc>>

\* ------------------------------------------------------------------ bounds
MaxAuthorId == 2
MaxBookId == 2
Workers == {"w1", "w2"}

\* ------------------------------------------------------------------ values
None == <<>>
Some(v) == <<v>>

sA == <<"a">>
sAb == <<"A", "b">>
Times == {1, 2}

NoData == <<>>

Max(S) == CHOOSE x \in S : \A y \in S : y <= x

\* Python truthiness of a JSON string-or-null value: None and "" are falsy.
Truthy(j) == j # None /\ j[1] # <<>>

\* dict.get(key): None when the key is absent.
Get(data, k) == IF k \in DOMAIN data THEN data[k] ELSE None

\* a payload with the given (key, option) pairs; an option is <<>> (key
\* absent) or <<j>> (key present with JSON value j).
Field(k, o) == IF o = <<>> THEN <<>> ELSE (k :> o[1])

\* ------------------------------------------------------------------ responses
Json(status, success, error, message, body) ==
    [status |-> status, success |-> success, error |-> error,
     message |-> message, body |-> body]

Fail(status, error) == Json(status, FALSE, error, "", <<>>)

\* an exception no handler catches: Flask answers 500 with a non-JSON page
Unhandled(exc) == Json(500, FALSE, exc, "", <<>>)

\* the handler's validation passed; it goes on to the commit
Pass == Json(0, TRUE, "", "", <<>>)

\* ------------------------------------------------------------------ the store
\* SQLite INTEGER PRIMARY KEY without AUTOINCREMENT: largest rowid in use + 1.
NextId(ids) == IF ids = {} THEN 1 ELSE Max(ids) + 1

\* Book.title nullable=False, Book.author_id nullable=False, Book.isbn unique
\* (NULLs are distinct under UNIQUE).  The foreign key is declared, but SQLite
\* does not enforce it unless PRAGMA foreign_keys is set, which app.py never does.
Book_not_unique(B) ==
    \A b \in DOMAIN B : B[b].title # None
Book(B) ==
    /\ \A b \in DOMAIN B : B[b].title # None
    /\ \A b1, b2 \in DOMAIN B :
          (b1 # b2 /\ B[b1].isbn # None) => B[b1].isbn # B[b2].isbn

\* Author.name nullable=False unique, Author.city nullable=False.
Author(A) ==
    /\ \A a \in DOMAIN A : A[a].name # None /\ A[a].city # None
    /\ \A a1, a2 \in DOMAIN A : a1 # a2 => A[a1].name # A[a2].name

isoformat(t) == <<"iso", t>>

\* Book.B_to_dict; author_ref is None for a Book whose Author row is gone.
B_to_dict(A, B, b) ==
    [id |-> b, title |-> B[b].title, year |-> B[b].year, isbn |-> B[b].isbn,
     author |-> [id |-> B[b].author_id, name |-> A[B[b].author_id].name],
     created_at |-> isoformat(B[b].created_at)]

\* ------------------------------------------------------------------ db.session
\* db.session.commit(): the pending rows are written in one transaction; a
\* constraint violation raises IntegrityError, nothing is written, and the
\* request ends in an unhandled exception.
commit(A2, B2, ok) ==
    IF Author(A2) /\ Book(B2)
    THEN authors' = A2 /\ books' = B2 /\ resp' = ok
    ELSE UNCHANGED <<authors, books>> /\ resp' = Unhandled("IntegrityError")

\* the JSON of one Book after the commit; B_to_dict reads author_ref.id, which
\* raises AttributeError when the Author row does not exist.
BookJson(status, message, A, B, b) ==
    IF B[b].author_id \in DOMAIN A
    THEN Json(status, TRUE, "", message, B_to_dict(A, B, b))
    ELSE Unhandled("AttributeError")

\* ------------------------------------------------------------------ Book routes
get_book_first(A, B, id) ==
    IF id \notin DOMAIN B
    THEN Fail(404, "Book not found")
    ELSE BookJson(200, "", A, B, NextId(DOMAIN B) - 1)

\* what get_book answers on the store (A, B)
get_book_response(A, B, id) ==
    IF id \notin DOMAIN B
    THEN Fail(404, "Book not found")
    ELSE BookJson(200, "", A, B, id)

get_book(id) ==
    /\ req' = [op |-> "get_book", id |-> id, data |-> NoData]
    /\ resp' = get_book_response(authors, books, id)
    /\ UNCHANGED <<authors, books, pc>>

\* create_book up to the construction of new_book: the validation against
\* the store as the handler reads it (A, B).
create_book_check(data, A, B) ==
    IF data = NoData THEN Fail(400, "No data provided")
    ELSE IF ~Truthy(Get(data, "title")) THEN Fail(400, "Title required")
    ELSE IF "author_id" \notin DOMAIN data THEN Unhandled("KeyError")
    ELSE IF data["author_id"][1] \notin DOMAIN A THEN Fail(404, "Author not found")
    ELSE IF Truthy(Get(data, "isbn"))
            /\ \E b \in DOMAIN B : B[b].isbn = data["isbn"]
         THEN Fail(400, "ISBN already exists")
    ELSE Pass

new_book(data, t) ==
    [title |-> data["title"], year |-> Get(data, "year"), isbn |-> Get(data, "isbn"),
     created_at |-> t, author_id |-> data["author_id"][1]]

\* db.session.add(new_book); db.session.commit(); the 201 response
create_book_commit(data, t) ==
    LET id == NextId(DOMAIN books)
        B2 == (id :> new_book(data, t)) @@ books
    IN  /\ id <= MaxBookId
        /\ commit(authors, B2, BookJson(201, "Book created successfully", authors, B2, id))

create_book(data, t) ==
    /\ req' = [op |-> "create_book", id |-> 0, data |-> data]
    /\ LET pre == create_book_check(data, authors, books)
       IN  IF pre.status # 0
           THEN resp' = pre /\ UNCHANGED <<authors, books>>
           ELSE create_book_commit(data, t)
    /\ UNCHANGED pc

update_book_author(book, data) ==
    [book EXCEPT !.title = IF "title" \in DOMAIN data THEN data["title"] ELSE @,
                 !.year = IF "year" \in DOMAIN data THEN data["year"] ELSE @,
                 !.isbn = IF "isbn" \in DOMAIN data THEN data["isbn"] ELSE @,
                 !.author_id = IF "author" \in DOMAIN data THEN data["author"][1] ELSE @]

update_book_put(book, data) ==
    [book EXCEPT !.title = IF "title" \in DOMAIN data THEN data["title"] ELSE @,
                 !.year = Get(data, "year"),
                 !.isbn = Get(data, "isbn")]

\* the assignments of update_book; book.author is no column of Book, so the
\* assignment of data['author'] reaches no row.
update_book_fields(book, data) ==
    [book EXCEPT !.title = IF "title" \in DOMAIN data THEN data["title"] ELSE @,
                 !.year = IF "year" \in DOMAIN data THEN data["year"] ELSE @,
                 !.isbn = IF "isbn" \in DOMAIN data THEN data["isbn"] ELSE @]

update_book(id, data) ==
    /\ req' = [op |-> "update_book", id |-> id, data |-> data]
    /\ IF id \notin DOMAIN books
       THEN resp' = Fail(404, "Book not found") /\ UNCHANGED <<authors, books>>
       ELSE IF data = NoData
       THEN resp' = Fail(400, "No data provided") /\ UNCHANGED <<authors, books>>
       ELSE LET B2 == [books EXCEPT ![id] = update_book_fields(@, data)]
            IN  commit(authors, B2, BookJson(200, "Book updated successfully", authors, B2, id))
    /\ UNCHANGED pc

delete_book(id) ==
    /\ req' = [op |-> "delete_book", id |-> id, data |-> NoData]
    /\ IF id \notin DOMAIN books
       THEN resp' = Fail(404, "Book not found") /\ UNCHANGED <<authors, books>>
       ELSE commit(authors, [b \in DOMAIN books \ {id} |-> books[b]],
                   Json(200, TRUE, "", "Book deleted successfully", <<>>))
    /\ UNCHANGED pc

\* ------------------------------------------------------------------ Author routes
RECURSIVE Ascending(_)
\* the ids of S in ascending order (a table scan returns rows by rowid)
Ascending(S) ==
    IF S = {} THEN <<>>
    ELSE LET m == CHOOSE x \in S : \A y \in S : x <= y
         IN  <<m>> \o Ascending(S \ {m})

\* the Books the relationship Author.books loads for Author a
BooksOf(B, a) == {b \in DOMAIN B : B[b].author_id = a}

\* Author.A_to_dict
A_to_dict(A, B, a) ==
    LET ids == Ascending(BooksOf(B, a))
    IN  [id |-> a, name |-> A[a].name, city |-> A[a].city,
         books |-> [i \in 1..Len(ids) |-> B_to_dict(A, B, ids[i])]]

create_author_check(data, A) ==
    IF data = NoData THEN Fail(400, "No data provided")
    ELSE IF ~Truthy(Get(data, "name")) \/ ~Truthy(Get(data, "city"))
         THEN Fail(400, "Name and city are required")
    ELSE IF \E a \in DOMAIN A : A[a].name = data["name"]
         THEN Fail(400, "Author already exists")
    ELSE Pass

new_author(data) == [name |-> data["name"], city |-> data["city"]]

create_author_commit(data) ==
    LET id == NextId(DOMAIN authors)
        A2 == (id :> new_author(data)) @@ authors
    IN  /\ id <= MaxAuthorId
        /\ commit(A2, books,
                  Json(201, TRUE, "", "Author created successfully", A_to_dict(A2, books, id)))

create_author(data) ==
    /\ req' = [op |-> "create_author", id |-> 0, data |-> data]
    /\ LET pre == create_author_check(data, authors)
       IN  IF pre.status # 0
           THEN resp' = pre /\ UNCHANGED <<authors, books>>
           ELSE create_author_commit(data)
    /\ UNCHANGED pc

\* the assignments of update_author; author.book_name is no column of Author.
update_author_fields(author, data) ==
    [author EXCEPT !.name = IF "name" \in DOMAIN data THEN data["name"] ELSE @,
                   !.city = IF "city" \in DOMAIN data THEN data["city"] ELSE @]

update_author(id, data) ==
    /\ req' = [op |-> "update_author", id |-> id, data |-> data]
    /\ IF id \notin DOMAIN authors
       THEN resp' = Fail(404, "Author not found") /\ UNCHANGED <<authors, books>>
       ELSE IF data = NoData
       THEN resp' = Fail(400, "No data provided") /\ UNCHANGED <<authors, books>>
       ELSE LET A2 == [authors EXCEPT ![id] = update_author_fields(@, data)]
            IN  commit(A2, books,
                       Json(200, TRUE, "", "Author updated successfully", A_to_dict(A2, books, id)))
    /\ UNCHANGED pc

cascade_none(B, a) == B

\* db.session.delete(author) with cascade='all, delete-orphan' on Author.books:
\* the rows left in the book table.
cascade(B, a) == [b \in DOMAIN B \ BooksOf(B, a) |-> B[b]]

delete_author(id) ==
    /\ req' = [op |-> "delete_author", id |-> id, data |-> NoData]
    /\ IF id \notin DOMAIN authors
       THEN resp' = Fail(404, "Author not found") /\ UNCHANGED <<authors, books>>
       ELSE commit([a \in DOMAIN authors \ {id} |-> authors[a]], cascade(books, id),
                   Json(200, TRUE, "", "Author deleted successfully", <<>>))
    /\ UNCHANGED pc

\* ------------------------------------------------------------------ requests
\* the payloads and ids the clients send
OptTitle == {<<>>, <<Some(sA)>>}
OptIsbn == {<<>>, <<Some(<<>>)>>, <<Some(sA)>>}
OptAuthorId == {<<>>} \cup {<<Some(a)>> : a \in 1..MaxAuthorId}

BookPayloads ==
    {Field("title", t) @@ Field("isbn", i) @@ Field("author_id", a) :
        t \in OptTitle, i \in OptIsbn, a \in OptAuthorId}

BookUpdates ==
    {NoData, Field("title", <<None>>), Field("isbn", <<None>>), Field("isbn", <<Some(sA)>>),
     Field("isbn", <<Some(<<>>)>>)}
        \cup {Field("author", <<Some(a)>>) : a \in 1..MaxAuthorId}

AuthorPayloads ==
    {Field("name", n) @@ Field("city", c) :
        n \in {<<>>, <<Some(sA)>>, <<Some(sAb)>>}, c \in {<<>>, <<Some(sA)>>}}

AuthorUpdates ==
    {NoData, Field("name", <<None>>), Field("name", <<Some(sA)>>), Field("city", <<Some(sAb)>>),
     Field("book_name", <<Some(sAb)>>)}

BookIds == 1..MaxBookId
AuthorIds == 1..MaxAuthorId

Idle == [w \in Workers |-> [at |-> "idle", data |-> NoData, t |-> 0]]

\* init_db() on a store whose tables are empty or already seeded; the seeding
\* itself is outside the API.
Init ==
    /\ authors = <<>>
    /\ books = <<>>
    /\ req = [op |-> "none", id |-> 0, data |-> NoData]
    /\ resp = Json(0, TRUE, "", "", <<>>)
    /\ pc = Idle

Next ==
    \/ \E id \in BookIds : get_book(id)
    \/ \E data \in BookPayloads : create_book(data, 1)
    \/ \E id \in BookIds, data \in BookUpdates : update_book(id, data)
    \/ \E id \in BookIds : delete_book(id)
    \/ \E data \in AuthorPayloads : create_author(data)
    \/ \E id \in AuthorIds, data \in AuthorUpdates : update_author(id, data)
    \/ \E id \in AuthorIds : delete_author(id)

Spec == Init /\ [][Next]_vars

\* ------------------------------------------------------------------ properties
StoreUnchanged == authors' = authors /\ books' = books

\* C1: a successful Delete-Author(a) removes a and exactly the Books a owns:
\* Get-Book on each of them answers 404, the Author count drops by 1, the Book
\* count by the number N of owned Books, every other row is unchanged.
DeleteAuthorCascade ==
    [][(req'.op = "delete_author" /\ resp'.success) =>
         LET a == req'.id
             owned == BooksOf(books, a)
         IN  /\ a \in DOMAIN authors
             /\ DOMAIN authors' = DOMAIN authors \ {a}
             /\ \A x \in DOMAIN authors' : authors'[x] = authors[x]
             /\ DOMAIN books' = DOMAIN books \ owned
             /\ \A b \in DOMAIN books' : books'[b] = books[b]
             /\ \A b \in owned : get_book_response(authors', books', b).status = 404
             /\ Cardinality(DOMAIN authors') = Cardinality(DOMAIN authors) - 1
             /\ Cardinality(DOMAIN books') = Cardinality(DOMAIN books) - Cardinality(owned)]_vars

\* an Author was deleted while another Author's Book stays
DeleteAuthorWitness ==
    /\ req.op = "delete_author" /\ resp.success
    /\ authors # <<>> /\ books # <<>>
    /\ req.id \notin DOMAIN authors

NoOrphan == \A b \in DOMAIN books : books[b].author_id \in DOMAIN authors

\* C2: every persisted Book's author_id is the id of an existing Author, and
\* Update-Book (also with an 'author' field) never changes author_id.
NoOrphanBooks ==
    /\ []NoOrphan
    /\ [][req'.op = "update_book" =>
            \A b \in DOMAIN books \cap DOMAIN books' :
                books'[b].author_id = books[b].author_id]_vars

\* an Update-Book carrying 'author' succeeded on a Book of another Author
NoOrphanWitness ==
    /\ req.op = "update_book" /\ resp.success
    /\ "author" \in DOMAIN req.data
    /\ books[req.id].author_id # req.data["author"][1]

\* C8: Get-Book answers the current fields of the Book iff it exists and 404
\* otherwise; a 201 Create-Book persisted the payload's fields, which Get-Book
\* on the returned id answers; after a successful Delete-Book or a cascading
\* Delete-Author the id stays absent until a Create-Book, and a repeated
\* Delete-Book answers 404 and changes nothing.
GetBookState ==
    /\ req.op = "get_book" =>
          IF req.id \in DOMAIN books
          THEN /\ resp.success /\ resp.status = 200
               /\ resp.body.id = req.id
               /\ resp.body.title = books[req.id].title
               /\ resp.body.year = books[req.id].year
               /\ resp.body.isbn = books[req.id].isbn
               /\ resp.body.author.id = books[req.id].author_id
               /\ resp.body.author.name = authors[books[req.id].author_id].name
          ELSE resp = Fail(404, "Book not found")
    /\ (req.op = "create_book" /\ resp.status = 201) =>
          /\ resp.body.id \in DOMAIN books
          /\ resp.body.title = req.data["title"]
          /\ resp.body.year = Get(req.data, "year")
          /\ resp.body.isbn = Get(req.data, "isbn")
          /\ resp.body.author.id = req.data["author_id"][1]
          /\ get_book_response(authors, books, resp.body.id).status = 200
          /\ get_book_response(authors, books, resp.body.id).body = resp.body
    /\ (req.op = "delete_book" /\ resp.success) =>
          get_book_response(authors, books, req.id) = Fail(404, "Book not found")
    /\ (req.op = "delete_author" /\ resp.success) => BooksOf(books, req.id) = {}

GetBookReflectsStore ==
    /\ []GetBookState
    /\ [][/\ (req'.op = "delete_book" /\ req'.id \notin DOMAIN books) =>
              (resp' = Fail(404, "Book not found") /\ StoreUnchanged)
          /\ req'.op # "create_book" => DOMAIN books' \subseteq DOMAIN books]_vars

\* Get-Book answered an existing Book that carries an isbn
GetBookWitness ==
    /\ req.op = "get_book" /\ resp.success
    /\ books[req.id].isbn = Some(sA)
    /\ Cardinality(DOMAIN books) = 2

\* the payload of a Create-Book that passes the title and author checks
ValidBook(data, A) ==
    /\ Truthy(Get(data, "title"))
    /\ "author_id" \in DOMAIN data
    /\ data["author_id"][1] \in DOMAIN A

\* the payload names, under key k, a non-null value
Names(data, k) == k \in DOMAIN data /\ data[k] # None

\* C4: a Create/Update-Book whose non-null isbn another Book holds, and a
\* Create/Update-Author whose name another Author holds, is answered 400 with
\* success=false.
ConflictIs400 ==
    [][((\/ /\ req'.op = "create_book" /\ ValidBook(req'.data, authors)
            /\ Names(req'.data, "isbn")
            /\ \E b \in DOMAIN books : books[b].isbn = req'.data["isbn"]
         \/ /\ req'.op = "update_book" /\ req'.id \in DOMAIN books
            /\ Names(req'.data, "isbn")
            /\ \E b \in DOMAIN books \ {req'.id} : books[b].isbn = req'.data["isbn"]
         \/ /\ req'.op = "create_author"
            /\ Truthy(Get(req'.data, "name")) /\ Truthy(Get(req'.data, "city"))
            /\ \E a \in DOMAIN authors : authors[a].name = req'.data["name"]
         \/ /\ req'.op = "update_author" /\ req'.id \in DOMAIN authors
            /\ Names(req'.data, "name")
            /\ \E a \in DOMAIN authors \ {req'.id} : authors[a].name = req'.data["name"])
        => (resp'.status = 400 /\ ~resp'.success))]_vars

\* every request answered with a failure leaves the Authors and Books as
\* they were, a commit the store rejects included
FailureLeavesStore == [][resp'.status >= 400 => StoreUnchanged]_vars

\* C5: a request answered with a failure leaves the store unchanged;
\* Create-Book with an author_id naming no Author answers 404 'Author not
\* found' and persists no Book; Create-Book with an isbn already present
\* answers 400 'ISBN already exists' and leaves the number of Books unchanged.
StateUnchangedOnError ==
    [][/\ resp'.status >= 400 => StoreUnchanged
       /\ (/\ req'.op = "create_book" /\ Truthy(Get(req'.data, "title"))
           /\ "author_id" \in DOMAIN req'.data
           /\ req'.data["author_id"][1] \notin DOMAIN authors)
          => (resp' = Fail(404, "Author not found") /\ books' = books)
       /\ (/\ req'.op = "create_book" /\ ValidBook(req'.data, authors)
           /\ Names(req'.data, "isbn")
           /\ \E b \in DOMAIN books : books[b].isbn = req'.data["isbn"])
          => (/\ resp' = Fail(400, "ISBN already exists")
              /\ Cardinality(DOMAIN books') = Cardinality(DOMAIN books))]_vars

\* C6: every request ends in a success response or in a JSON failure with
\* status 400 or 404; none ends in an unhandled failure.
EveryFailureReported ==
    /\ resp.status \in {0, 200, 201, 400, 404}
    /\ resp.status \in {400, 404} => (~resp.success /\ resp.error # "")

\* ------------------------------------------------------------------ updates
\* The API with one Author and one Create-Book payload, Books created at
\* different instants, and partial updates over every subset of the fields.
FieldUpdates ==
    {Field("title", t) @@ Field("year", y) @@ Field("author", a) :
        t \in {<<>>, <<Some(sAb)>>}, y \in {<<>>, <<Some(1)>>},
        a \in {<<>>, <<Some(MaxAuthorId)>>}}

AuthorFieldUpdates ==
    {Field("name", n) @@ Field("city", c) @@ Field("book_name", b) :
        n \in {<<>>, <<Some(sAb)>>}, c \in {<<>>, <<Some(sAb)>>},
        b \in {<<>>, <<Some(sA)>>}}

NextUpdate ==
    \/ create_author(Field("name", <<Some(sA)>>) @@ Field("city", <<Some(sA)>>))
    \/ \E t \in Times :
          create_book(Field("title", <<Some(sA)>>) @@ Field("author_id", <<Some(1)>>), t)
    \/ \E id \in BookIds, data \in FieldUpdates : update_book(id, data)
    \/ \E id \in AuthorIds, data \in AuthorFieldUpdates : update_author(id, data)

SpecUpdate == Init /\ [][NextUpdate]_vars

Columns == {"title", "year", "isbn"}

\* C7: a successful Update-Book sets, on the Book with that id, exactly the
\* fields among title, year, isbn present in the payload and leaves its
\* created_at and author_id, every other Book and every Author unchanged; a
\* successful Update-Author sets only name and city when present and changes
\* no Book; no update changes a Book's created_at.
PartialUpdateFrame ==
    [][/\ (req'.op = "update_book" /\ resp'.success) =>
            /\ DOMAIN books' = DOMAIN books
            /\ \A k \in Columns :
                  books'[req'.id][k] =
                     IF k \in DOMAIN req'.data THEN req'.data[k] ELSE books[req'.id][k]
            /\ books'[req'.id].created_at = books[req'.id].created_at
            /\ books'[req'.id].author_id = books[req'.id].author_id
            /\ \A b \in DOMAIN books \ {req'.id} : books'[b] = books[b]
            /\ authors' = authors
       /\ (req'.op = "update_author" /\ resp'.success) =>
            /\ DOMAIN authors' = DOMAIN authors
            /\ \A k \in {"name", "city"} :
                  authors'[req'.id][k] =
                     IF k \in DOMAIN req'.data THEN req'.data[k] ELSE authors[req'.id][k]
            /\ \A a \in DOMAIN authors \ {req'.id} : authors'[a] = authors[a]
            /\ books' = books
       /\ \A b \in DOMAIN books \cap DOMAIN books' :
            books'[b].created_at = books[b].created_at]_vars

\* an update of the year alone succeeded on a retitled Book, next to a Book
\* created at another instant
PartialUpdateWitness ==
    /\ req.op = "update_book" /\ resp.success
    /\ DOMAIN req.data = {"year"}
    /\ books[req.id].title = Some(sAb) /\ books[req.id].year = Some(1)
    /\ \E b \in DOMAIN books : books[b].created_at # books[req.id].created_at

\* ------------------------------------------------------------------ interleaving
\* Requests served by concurrent workers.  A create handler reads the store
\* for its pre-check and commits later; another worker's commit may come in
\* between.  Each commit is one transaction of the store.
begin_create_book(w, data, t) ==
    /\ pc[w].at = "idle"
    /\ LET pre == create_book_check(data, authors, books)
       IN  IF pre.status # 0
           THEN /\ req' = [op |-> "create_book", id |-> 0, data |-> data]
                /\ resp' = pre
                /\ UNCHANGED pc
           ELSE /\ pc' = [pc EXCEPT ![w] = [at |-> "create_book", data |-> data, t |-> t]]
                /\ UNCHANGED <<req, resp>>
    /\ UNCHANGED <<authors, books>>

end_create_book(w) ==
    /\ pc[w].at = "create_book"
    /\ req' = [op |-> "create_book", id |-> 0, data |-> pc[w].data]
    /\ create_book_commit(pc[w].data, pc[w].t)
    /\ pc' = [pc EXCEPT ![w] = Idle[w]]

begin_create_author(w, data) ==
    /\ pc[w].at = "idle"
    /\ LET pre == create_author_check(data, authors)
       IN  IF pre.status # 0
           THEN /\ req' = [op |-> "create_author", id |-> 0, data |-> data]
                /\ resp' = pre
                /\ UNCHANGED pc
           ELSE /\ pc' = [pc EXCEPT ![w] = [at |-> "create_author", data |-> data, t |-> 0]]
                /\ UNCHANGED <<req, resp>>
    /\ UNCHANGED <<authors, books>>

end_create_author(w) ==
    /\ pc[w].at = "create_author"
    /\ req' = [op |-> "create_author", id |-> 0, data |-> pc[w].data]
    /\ create_author_commit(pc[w].data)
    /\ pc' = [pc EXCEPT ![w] = Idle[w]]

ConcBooks ==
    {Field("title", <<Some(sA)>>) @@ Field("isbn", i) @@ Field("author_id", <<Some(1)>>) :
        i \in {<<>>, <<Some(sA)>>, <<Some(sAb)>>}}

ConcAuthors ==
    {Field("name", <<Some(n)>>) @@ Field("city", <<Some(sA)>>) : n \in {sA, sAb}}

NextConc ==
    \/ \E w \in Workers, data \in ConcBooks : begin_create_book(w, data, 1)
    \/ \E w \in Workers : end_create_book(w)
    \/ \E w \in Workers, data \in ConcAuthors : begin_create_author(w, data)
    \/ \E w \in Workers : end_create_author(w)
    \/ \E id \in BookIds : update_book(id, Field("isbn", <<Some(sA)>>))
    \/ \E id \in AuthorIds : update_author(id, Field("name", <<Some(sA)>>))
    \/ \E id \in BookIds : delete_book(id)
    \/ \E id \in AuthorIds : delete_author(id)

SpecConc == Init /\ [][NextConc]_vars

\* C3: no two Books share a non-null isbn and no two Authors share a name,
\* also when two creates with the same isbn (or name) both pass the pre-check
\* before either commits: at most one of the two rows is persisted.
UniqueUnderInterleaving ==
    /\ \A b1, b2 \in DOMAIN books :
          (b1 # b2 /\ books[b1].isbn # None) => books[b1].isbn # books[b2].isbn
    /\ \A a1, a2 \in DOMAIN authors : a1 # a2 => authors[a1].name # authors[a2].name

\* a Create-Book that had passed the pre-check lost at the commit to a Book
\* with the same isbn
UniqueWitness ==
    /\ req.op = "create_book" /\ resp.error = "IntegrityError"
    /\ Truthy(Get(req.data, "isbn"))
    /\ Cardinality({b \in DOMAIN books : books[b].isbn = req.data["isbn"]}) = 1

\* ------------------------------------------------------------------ queries
Lower(c) == IF c = "A" THEN "a" ELSE IF c = "B" THEN "b" ELSE c

LowerS(s) == [i \in 1..Len(s) |-> Lower(s[i])]

Contains(s, p) == \E i \in 0..(Len(s) - Len(p)) : SubSeq(s, i + 1, i + Len(p)) = p

\* column.ilike('%' + p + '%') on a non-null column value; the patterns of the
\* model hold no LIKE wildcard
ilike(col, p) == Contains(LowerS(col[1]), LowerS(p))

Digits == {"0", "1", "2", "3", "4", "5", "6", "7", "8", "9"}

DigitVal(c) ==
    CASE c = "0" -> 0 [] c = "1" -> 1 [] c = "2" -> 2 [] c = "3" -> 3 [] c = "4" -> 4
      [] c = "5" -> 5 [] c = "6" -> 6 [] c = "7" -> 7 [] c = "8" -> 8 [] c = "9" -> 9

\* int(s) succeeds on a string of decimal digits
IsInt(s) == s # <<>> /\ \A i \in 1..Len(s) : s[i] \in Digits

RECURSIVE int(_)
int(s) == IF s = <<>> THEN 0 ELSE 10 * int(SubSeq(s, 1, Len(s) - 1)) + DigitVal(s[Len(s)])

\* request.args.get(key, default=d, type=int): the default when the argument
\* is absent or no integer
IntArg(arg, d) == IF arg # None /\ IsInt(arg[1]) THEN int(arg[1]) ELSE d

search_books(args) ==
    /\ req' = [op |-> "search_books", id |-> 0, data |-> args]
    /\ resp' =
         IF Truthy(args.year) /\ ~IsInt(args.year[1]) THEN Unhandled("ValueError")
         ELSE LET rows == {b \in DOMAIN books :
                             /\ books[b].author_id \in DOMAIN authors
                             /\ Truthy(args.title) => ilike(books[b].title, args.title[1])
                             /\ Truthy(args.author) =>
                                   ilike(authors[books[b].author_id].name, args.author[1])
                             /\ Truthy(args.year) => books[b].year = Some(int(args.year[1]))}
              IN  Json(200, TRUE, "", "",
                       [count |-> Cardinality(rows),
                        books |-> {B_to_dict(authors, books, b) : b \in rows}])
    /\ UNCHANGED <<authors, books, pc>>

\* the Authors of Author.query.join(Book) under the filters; the legacy Query
\* returns each entity once
search_authors_rows(A, B, args) ==
    {a \in DOMAIN A :
        \E b \in DOMAIN B :
           /\ B[b].author_id = a
           /\ Truthy(args.name) => ilike(A[a].name, args.name[1])
           /\ Truthy(args.city) => ilike(A[a].city, args.city[1])
           /\ Truthy(args.title) => ilike(B[b].title, args.title[1])}

search_authors(args) ==
    /\ req' = [op |-> "search_authors", id |-> 0, data |-> args]
    /\ resp' = LET rows == search_authors_rows(authors, books, args)
               IN  Json(200, TRUE, "", "",
                        [count |-> Cardinality(rows),
                         authors |-> {A_to_dict(authors, books, a) : a \in rows}])
    /\ UNCHANGED <<authors, books, pc>>

DefaultPage == 1
DefaultPerPage == 5

Ceil(n, d) == (n + d - 1) \div d

paginate_floor(ids, page, per_page) ==
    LET p == IF page < 1 THEN 1 ELSE page
        n == per_page
        all == Ascending(ids)
    IN  [items |-> SubSeq(all, (p - 1) * n + 1, IF p * n < Len(all) THEN p * n ELSE Len(all)),
         total |-> Len(all),
         pages |-> Len(all) \div n]

\* query.order_by(Book.id.asc()).paginate(page, per_page, error_out=False),
\* for per_page >= 1: a page below 1 becomes page 1 instead of a 404; LIMIT
\* per_page OFFSET (page - 1) * per_page; pages is ceil(total / per_page)
paginate(ids, page, per_page) ==
    LET p == IF page < 1 THEN 1 ELSE page
        n == per_page
        all == Ascending(ids)
    IN  [items |-> SubSeq(all, (p - 1) * n + 1, IF p * n < Len(all) THEN p * n ELSE Len(all)),
         total |-> Len(all),
         pages |-> Ceil(Len(all), n)]

get_books_paginated(args) ==
    /\ req' = [op |-> "get_books_paginated", id |-> 0, data |-> args]
    /\ resp' = LET page == IntArg(args.page, DefaultPage)
                   per_page == IntArg(args.per_page, DefaultPerPage)
                   pagination == paginate(DOMAIN books, page, per_page)
               IN  Json(200, TRUE, "", "",
                        [page |-> page, per_page |-> per_page,
                         total_items |-> pagination.total,
                         total_pages |-> pagination.pages,
                         books |-> [i \in 1..Len(pagination.items) |->
                                      B_to_dict(authors, books, pagination.items[i])]])
    /\ UNCHANGED <<authors, books, pc>>

\* the stores the queries run on: any Authors and Books the constraints and
\* the handlers allow (rows are left at any ids once others were deleted)
AuthorRows == [name : {Some(sA), Some(sAb)}, city : {Some(sA), Some(sAb)}]

AuthorStores ==
    {A \in UNION {[ids -> AuthorRows] : ids \in SUBSET AuthorIds} : Author(A)}

BookRows(A) ==
    [title : {Some(sA), Some(sAb)}, year : {Some(1)}, isbn : {None}, created_at : {1},
     author_id : DOMAIN A]

BookStores(A) == UNION {[ids -> BookRows(A)] : ids \in SUBSET BookIds}

InitQuery ==
    /\ authors \in AuthorStores
    /\ books \in BookStores(authors)
    /\ req = [op |-> "none", id |-> 0, data |-> NoData]
    /\ resp = Json(0, TRUE, "", "", <<>>)
    /\ pc = Idle

Filters == {None, Some(<<"A">>), Some(<<"b">>)}

NextQuery ==
    \/ \E y \in {None, Some(<<"1">>), Some(<<"a">>)}, t \in {None, Some(<<"b">>)} :
          search_books([title |-> t, author |-> None, year |-> y])
    \/ \E n \in Filters, c \in Filters, t \in Filters :
          search_authors([name |-> n, city |-> c, title |-> t])
    \/ \E p \in {None, Some(<<"a">>)} \cup {Some(<<d>>) : d \in {"0", "1", "2", "3"}},
          n \in {None, Some(<<"1">>), Some(<<"2">>)} :
          get_books_paginated([page |-> p, per_page |-> n])

SpecQuery == InitQuery /\ [][NextQuery]_vars

\* the requested page and page size: the defaults when the argument is absent
Requested(arg, d) == IF arg = None THEN d ELSE int(arg[1])

IsPageRequest ==
    /\ req.op = "get_books_paginated"
    /\ \A k \in {"page", "per_page"} : req.data[k] = None \/ IsInt(req.data[k][1])

\* the listing the claim describes for the request (page, per_page)
PageOf(page, per_page) ==
    LET T == Cardinality(DOMAIN books)
        all == Ascending(DOMAIN books)
        lo == (page - 1) * per_page + 1
        hi == IF page * per_page < T THEN page * per_page ELSE T
        at == {k \in lo..hi : 1 <= k /\ k <= T}
    IN  /\ resp.success /\ resp.status = 200
        /\ resp.body.total_items = T
        /\ resp.body.total_pages * per_page >= T
        /\ (resp.body.total_pages - 1) * per_page < T
        /\ resp.body.total_pages >= 0
        /\ Len(resp.body.books) = Cardinality(at)
        /\ \A i \in 1..Len(resp.body.books) :
              resp.body.books[i] = B_to_dict(authors, books, all[lo + i - 1])

\* C9 as stated: for any request (page, per_page), defaults 1 and 5, the
\* listing reports total_items = T, total_pages = ceil(T / per_page) and the
\* Books at positions (page-1)*per_page+1 .. min(page*per_page, T) in ascending
\* id order; every out-of-range page is an empty list with success.
PaginationAnyPage ==
    IsPageRequest =>
       PageOf(Requested(req.data.page, DefaultPage), Requested(req.data.per_page, DefaultPerPage))

\* C9 amended: the same for every request with page >= 1.
PaginationFromPageOne ==
    (IsPageRequest /\ Requested(req.data.page, DefaultPage) >= 1) =>
       PageOf(Requested(req.data.page, DefaultPage), Requested(req.data.per_page, DefaultPerPage))

\* page 3 of a two-page listing is empty
PaginationWitness ==
    /\ req.op = "get_books_paginated"
    /\ req.data.page = Some(<<"3">>)
    /\ resp.body.total_items = 2 /\ resp.body.total_pages = 2
    /\ resp.body.books = <<>>

\* C10: Search-Authors returns, each once and with their count, exactly the
\* Authors that satisfy every supplied filter: name and city as
\* case-insensitive substrings, title as owning a Book whose title contains
\* it; a filter that is not supplied excludes no Author.
SearchAuthorsExact ==
    req.op = "search_authors" =>
       LET f == req.data
           expected ==
              {a \in DOMAIN authors :
                 /\ Truthy(f.name) => ilike(authors[a].name, f.name[1])
                 /\ Truthy(f.city) => ilike(authors[a].city, f.city[1])
                 /\ Truthy(f.title) =>
                       \E b \in BooksOf(books, a) : ilike(books[b].title, f.title[1])}
       IN  /\ resp.success
           /\ resp.body.count = Cardinality(expected)
           /\ {x.id : x \in resp.body.authors} = expected

====
